---- MODULE Spec2Model ----
(***************************************************************************)
(* The rules engine of the card game 61 (packages/engine, with the        *)
(* constants of packages/shared): seeded shuffle, trick resolution, lead   *)
(* policy, draw replenishment, interactive play (playCard, legalMoves)     *)
(* and batch play (playHand) over one MatchState.                          *)
(***************************************************************************)
EXTENDS Integers, Sequences, FiniteSets, TLC

VARIABLES
  state,       \* the MatchState every operation reads and mutates
  tricks,      \* history: the tricks resolved so far, with what each resolution read and wrote
  deviations,  \* history: successful plays of a card other than the first of the hand
  call         \* the last direct call of a pure function: its arguments and what it returned

vars == <<state, tricks, deviations, call>>

(***************************************************************************)
(* Bounds of the model.                                                    *)
(***************************************************************************)
\* seeds "demo-0" .. "demo-(NumSeeds-1)", the seeds of the simulation drivers
NumSeeds == 2
\* plays of a card other than the first of the hand allowed in one match
MaxDeviations == 1
\* plays in the tricks enumerated for resolveTrick, over all 36 cards and 4 trumps
MaxPlays == 3
\* submit() calls made on one PunishmentQueue
MaxSubmits == 128
\* numeric seeds given to createRng for the decks shuffled on their own
MaxRngSeeds == 128

(***************************************************************************)
(* Shared constants.                                                       *)
(***************************************************************************)
SUITS == <<"spades", "hearts", "diamonds", "clubs">>

\* Ranks in the order createShuffledDeck enumerates them.
RANKS == <<"A", "K", "Q", "J", "7", "6", "5", "4", "3">>

\* the strength order with 7 below the court cards
RANK_ORDER_KQJ7 == <<"A", "K", "Q", "J", "7", "6", "5", "4", "3">>

\* Ranks in strength order, highest first.
RANK_ORDER == <<"A", "7", "K", "Q", "J", "6", "5", "4", "3">>

\* the point table with the values of J and Q exchanged
POINTS_JQ ==
  "A" :> 11 @@ "7" :> 10 @@ "K" :> 4 @@ "J" :> 2 @@ "Q" :> 3 @@
  "6" :> 0 @@ "5" :> 0 @@ "4" :> 0 @@ "3" :> 0

POINTS ==
  "A" :> 11 @@ "7" :> 10 @@ "K" :> 4 @@ "J" :> 3 @@ "Q" :> 2 @@
  "6" :> 0 @@ "5" :> 0 @@ "4" :> 0 @@ "3" :> 0

Range(seq) == {seq[k] : k \in 1..Len(seq)}

Card == [suit : Range(SUITS), rank : Range(RANKS)]

Players == 0..5

\* TrickResult.winner of a tied trick, and nextLead's winner argument for a tie
null == -1

(***************************************************************************)
(* Sequence helpers standing for the array methods the code uses.          *)
(***************************************************************************)
\* Array.prototype.indexOf / findIndex, 0-based, -1 when absent
RECURSIVE indexFrom(_, _, _)
indexFrom(seq, x, k) ==
  IF k > Len(seq) THEN -1
  ELSE IF seq[k] = x THEN k - 1
  ELSE indexFrom(seq, x, k + 1)

indexOf(seq, x) == indexFrom(seq, x, 1)

\* seq.splice(idx, 1) with a 0-based idx
splice(seq, idx) ==
  [k \in 1..(Len(seq) - 1) |-> IF k <= idx THEN seq[k] ELSE seq[k + 1]]

\* the reduce over the plays after the k-th: from 1, the card led is not counted
RECURSIVE sumPointsAfterLead(_, _)
sumPointsAfterLead(plays, k) ==
  IF k >= Len(plays) THEN 0
  ELSE POINTS[plays[k + 1].card.rank] + sumPointsAfterLead(plays, k + 1)

\* seq.reduce((acc, x) => acc + f(x), 0) over the points of the played cards
RECURSIVE sumPoints(_, _)
sumPoints(plays, k) ==
  IF k > Len(plays) THEN 0
  ELSE POINTS[plays[k].card.rank] + sumPoints(plays, k + 1)

\* Math.max(...weights)
RECURSIVE maxOf(_, _)
maxOf(ws, k) ==
  IF k = Len(ws) THEN ws[k]
  ELSE LET m == maxOf(ws, k + 1) IN IF ws[k] > m THEN ws[k] ELSE m

\* hands.reduce((acc, h) => acc + h.length, 0)
RECURSIVE cardsIn(_, _)
cardsIn(hands, p) ==
  IF p > 5 THEN 0 ELSE Len(hands[p]) + cardsIn(hands, p + 1)

(***************************************************************************)
(* 32-bit unsigned words as <<high 16 bits, low 16 bits>>: the values of   *)
(* the generator and of the hash do not fit the checker's integers.        *)
(***************************************************************************)
RECURSIVE xor(_, _)
xor(a, b) ==
  IF a = 0 THEN b
  ELSE IF b = 0 THEN a
  ELSE (((a % 2) + (b % 2)) % 2) + 2 * xor(a \div 2, b \div 2)

\* (w * (mh * 2^16 + ml) + (ch * 2^16 + cl)) mod 2^32
mulAdd32(w, mh, ml, ch, cl) ==
  LET low == w[2] * ml + cl
  IN <<((low \div 65536) + w[1] * ml + w[2] * mh + ch) % 65536, low % 65536>>

\* createRng: the generator is its state; the seed becomes the first state
createRng(seed) == seed

\* one call of the generator: state = (a * state + c) % m, a = 1664525, c = 1013904223
rngNext(st) == mulAdd32(st, 25, 26125, 15470, 62303)

\* Math.floor(rng() * n) for the state the call left: floor(state * n / 2^32)
floorScaled(st, n) == (st[1] * n + ((st[2] * n) \div 65536)) \div 65536

\* stringToSeed: FNV-1a, h ^= charCode; h = Math.imul(h, 16777619)
RECURSIVE fnvFold(_, _, _)
fnvFold(h, str, k) ==
  IF k > Len(str) \/ h = <<>> THEN h   \* h is never empty: the loop ends on k alone
  ELSE fnvFold(mulAdd32(<<h[1], xor(h[2], str[k])>>, 256, 403, 0, 0), str, k + 1)

stringToSeed(str) == fnvFold(<<33052, 40389>>, str, 1)

(***************************************************************************)
(* Deck factory.                                                           *)
(***************************************************************************)
unshuffledDeck ==
  [k \in 1..(Len(SUITS) * Len(RANKS)) |->
     [suit |-> SUITS[((k - 1) \div Len(RANKS)) + 1],
      rank |-> RANKS[((k - 1) % Len(RANKS)) + 1]]]

\* the loop with deck[i] = deck[j] in place of the exchange
RECURSIVE fisherYatesCopies(_, _, _)
fisherYatesCopies(deck, i, rng) ==
  IF i <= 0 \/ deck = <<>> THEN deck
  ELSE LET next == rngNext(rng)
           j == floorScaled(next, i + 1)
       IN fisherYatesCopies([deck EXCEPT ![i + 1] = deck[j + 1]], i - 1, next)

\* Fisher-Yates, i from the last index down to 1 (0-based), j = floor(rng() * (i + 1))
RECURSIVE fisherYates(_, _, _)
fisherYates(deck, i, rng) ==
  IF i <= 0 \/ deck = <<>> THEN deck   \* a deck is never empty: the loop ends on i alone
  ELSE LET next == rngNext(rng)
           j == floorScaled(next, i + 1)
       IN fisherYates([deck EXCEPT ![i + 1] = deck[j + 1], ![j + 1] = deck[i + 1]],
                      i - 1, next)

createShuffledDeck(rng) == fisherYates(unshuffledDeck, Len(unshuffledDeck) - 1, rng)

\* the pairs (i, j) of the loop, in the order it makes them
RECURSIVE swapIndices(_, _)
swapIndices(i, rng) ==
  IF i <= 0 \/ rng = <<>> THEN <<>>   \* a generator state is never empty
  ELSE LET next == rngNext(rng)
       IN <<[i |-> i, j |-> floorScaled(next, i + 1)]>> \o swapIndices(i - 1, next)

(***************************************************************************)
(* Trick resolver and lead policy.                                         *)
(***************************************************************************)
teamOfPlayer(player) == player % 2

\* cardWeight with the led suit ranked above the trump suit
cardWeightLedOverTrump(card, trump, led) ==
  LET idx == indexOf(RANK_ORDER, card.rank)
      rankStrength == (Len(RANK_ORDER) - 1) - idx
  IN IF led # "" /\ card.suit = led THEN 200 + rankStrength
     ELSE IF card.suit = trump THEN 100 + rankStrength
     ELSE rankStrength

\* cardWeight without the bonus of the led suit
cardWeightNoLed(card, trump, led) ==
  LET idx == indexOf(RANK_ORDER, card.rank)
      rankStrength == (Len(RANK_ORDER) - 1) - idx
  IN IF card.suit = trump THEN 200 + rankStrength ELSE rankStrength

cardWeight(card, trump, led) ==
  LET idx == indexOf(RANK_ORDER, card.rank)
      rankStrength == (Len(RANK_ORDER) - 1) - idx
  IN IF card.suit = trump THEN 200 + rankStrength
     ELSE IF led # "" /\ card.suit = led THEN 100 + rankStrength
     ELSE rankStrength

\* the weights resolveTrick computes with the suit led taken as given
weightsFor(plays, trump, led) ==
  [k \in 1..Len(plays) |-> cardWeight(plays[k].card, trump, led)]

\* the 0-based indices of the plays of maximum weight, in order
maxIndices(weights) ==
  SelectSeq([k \in 1..Len(weights) |-> IF weights[k] = maxOf(weights, 1) THEN k - 1 ELSE -1],
            LAMBDA i : i >= 0)

\* resolveTrick giving the trick to the first of several plays of maximum weight
resolveTrickFirstMax(plays, trump) ==
  IF Len(plays) = 0 THEN [error |-> TRUE, winner |-> null, points |-> 0, tie |-> FALSE]
  ELSE LET indices == maxIndices(weightsFor(plays, trump, plays[1].card.suit))
       IN [error |-> FALSE, winner |-> plays[indices[1] + 1].player,
           points |-> sumPoints(plays, 1), tie |-> FALSE]

\* resolveTrick taking the suit of the last play as the suit led
resolveTrickLedFromLast(plays, trump) ==
  IF Len(plays) = 0 THEN [error |-> TRUE, winner |-> null, points |-> 0, tie |-> FALSE]
  ELSE LET indices == maxIndices(weightsFor(plays, trump, plays[Len(plays)].card.suit))
       IN IF Len(indices) > 1
          THEN [error |-> FALSE, winner |-> null, points |-> sumPoints(plays, 1), tie |-> TRUE]
          ELSE [error |-> FALSE, winner |-> plays[indices[1] + 1].player,
                points |-> sumPoints(plays, 1), tie |-> FALSE]

\* resolveTrick answering an empty list of plays with a result: no winner, no points
resolveTrickEmptyResult(plays, trump) ==
  IF Len(plays) = 0 THEN [error |-> FALSE, winner |-> null, points |-> 0, tie |-> FALSE]
  ELSE LET indices == maxIndices(weightsFor(plays, trump, plays[1].card.suit))
       IN IF Len(indices) > 1
          THEN [error |-> FALSE, winner |-> null, points |-> sumPoints(plays, 1), tie |-> TRUE]
          ELSE [error |-> FALSE, winner |-> plays[indices[1] + 1].player,
                points |-> sumPoints(plays, 1), tie |-> FALSE]

\* error is TRUE where the code throws 'No plays to resolve'
resolveTrick(plays, trump) ==
  IF Len(plays) = 0 THEN [error |-> TRUE, winner |-> null, points |-> 0, tie |-> FALSE]
  ELSE
    LET led == plays[1].card.suit
        weights == [k \in 1..Len(plays) |-> cardWeight(plays[k].card, trump, led)]
        maxWeight == maxOf(weights, 1)
        indices == SelectSeq([k \in 1..Len(plays) |-> IF weights[k] = maxWeight THEN k - 1 ELSE -1],
                             LAMBDA i : i >= 0)
        points == sumPoints(plays, 1)
    IN IF Len(indices) > 1
       THEN [error |-> FALSE, winner |-> null, points |-> points, tie |-> TRUE]
       ELSE [error |-> FALSE, winner |-> plays[indices[1] + 1].player, points |-> points,
             tie |-> FALSE]

\* nextLead handing the lead to every winner
nextLeadToWinner(currentLead, winner) ==
  IF winner = null THEN currentLead ELSE winner

\* nextLead never handing the lead over
nextLeadKeepsLead(currentLead, winner) == currentLead

nextLead(currentLead, winner) ==
  IF winner = null THEN currentLead
  ELSE LET currentTeam == teamOfPlayer(currentLead)
           winnerTeam == teamOfPlayer(winner)
       IN IF winnerTeam = currentTeam THEN currentLead ELSE winner

(***************************************************************************)
(* Match state machine.                                                    *)
(***************************************************************************)
\* a string as the sequence of its UTF-16 code units
RECURSIVE decimalCodes(_)
decimalCodes(n) ==
  IF n < 10 THEN <<48 + n>> ELSE decimalCodes(n \div 10) \o <<48 + (n % 10)>>

\* `demo-${i}`, the seed of the i-th simulated match
demoSeed(i) == <<100, 101, 109, 111, 45>> \o decimalCodes(i)

\* state.currentTrick ?? [] : the optional field is {} when undefined, {plays} otherwise
trickOf(s) == IF s.currentTrick = {} THEN <<>> ELSE CHOOSE t \in s.currentTrick : TRUE

logEntry(player, card) == [player |-> player, card |-> card, action |-> "play"]

\* the deal handing each player three cards in a row: for p in 0..5, for i in 0..2
RECURSIVE dealBlocks(_, _, _)
dealBlocks(hands, deck, k) ==
  IF k >= 3 * 6 \/ deck = <<>> THEN [hands |-> hands, deck |-> deck]
  ELSE dealBlocks([hands EXCEPT ![k \div 3] = Append(@, Head(deck))], Tail(deck), k + 1)

\* the deal of initMatch: for i in 0..2, for p in 0..5, hands[p].push(deck.shift())
RECURSIVE deal(_, _, _)
deal(hands, deck, k) ==
  IF k >= 3 * 6 \/ deck = <<>> THEN [hands |-> hands, deck |-> deck]   \* 36 cards: never empty
  ELSE deal([hands EXCEPT ![k % 6] = Append(@, Head(deck))], Tail(deck), k + 1)

\* initMatch leaving the trump-reveal card on top of the draw pile
initMatchTrumpStaysOnTop(seed) ==
  LET rng == createRng(stringToSeed(seed))
      dealt == deal([p \in Players |-> <<>>], createShuffledDeck(rng), 0)
      trumpCard == dealt.deck[1]
  IN [seed |-> seed,
      deck |-> dealt.deck,
      trump |-> trumpCard.suit,
      leadPlayer |-> 0,
      hands |-> dealt.hands,
      scores |-> (0 :> 0 @@ 1 :> 0),
      tiePoints |-> 0,
      punishment |-> [queue |-> <<>>, index |-> 0],
      log |-> <<>>,
      trumpCard |-> trumpCard,
      currentTrick |-> {}]

initMatch(seed) ==
  LET rng == createRng(stringToSeed(seed))
      dealt == deal([p \in Players |-> <<>>], createShuffledDeck(rng), 0)
      trumpCard == dealt.deck[1]
  IN [seed |-> seed,
      deck |-> Append(Tail(dealt.deck), trumpCard),
      trump |-> trumpCard.suit,
      leadPlayer |-> 0,
      hands |-> dealt.hands,
      scores |-> (0 :> 0 @@ 1 :> 0),
      tiePoints |-> 0,
      punishment |-> [queue |-> <<>>, index |-> 0],
      log |-> <<>>,
      trumpCard |-> trumpCard,
      currentTrick |-> {}]

\* the while loop topping a hand up to four cards
RECURSIVE drawWhileToFour(_, _)
drawWhileToFour(s, player) ==
  IF Len(s.hands[player]) < 4 /\ Len(s.deck) > 0
  THEN drawWhileToFour([s EXCEPT !.hands[player] = Append(@, Head(s.deck)),
                                 !.deck = Tail(@)], player)
  ELSE s

\* the while loop of drawAfterTrick for one player
RECURSIVE drawWhile(_, _)
drawWhile(s, player) ==
  IF Len(s.hands[player]) < 3 /\ Len(s.deck) > 0
  THEN drawWhile([s EXCEPT !.hands[player] = Append(@, Head(s.deck)), !.deck = Tail(@)],
                 player)
  ELSE s

\* the for loop of drawAfterTrick from one offset on
RECURSIVE drawFrom(_, _, _)
drawFrom(s, winner, offset) ==
  IF offset >= 6 THEN s
  ELSE drawFrom(drawWhile(s, (winner + offset) % 6), winner, offset + 1)

\* drawAfterTrick starting from the lead player instead of the winner
drawAfterTrickFromLead(s, winner) == drawFrom(s, s.leadPlayer, 0)

drawAfterTrick(s, winner) == drawFrom(s, winner, 0)

\* What a resolved trick does to the state; playHand and playCard hold the same
\* statements, word for word.
\* collectTrick paying the winner the trick's points alone: carried tie-points are dropped
collectTrickDropsTie(s, res) ==
  IF res.tie
  THEN [s EXCEPT !.tiePoints = @ + res.points]
  ELSE IF res.winner # null
  THEN LET team == teamOfPlayer(res.winner)
           scored == [s EXCEPT !.scores[team] = @ + res.points, !.tiePoints = 0,
                               !.leadPlayer = nextLead(@, res.winner)]
       IN IF Len(scored.deck) > 0 THEN drawAfterTrick(scored, res.winner) ELSE scored
  ELSE s

\* collectTrick letting the players draw after a tied trick too, the lead first
collectTrickTieDraws(s, res) ==
  IF res.tie
  THEN LET held == [s EXCEPT !.tiePoints = @ + res.points]
       IN IF Len(held.deck) > 0 THEN drawAfterTrick(held, held.leadPlayer) ELSE held
  ELSE IF res.winner # null
  THEN LET team == teamOfPlayer(res.winner)
           scored == [s EXCEPT !.scores[team] = @ + res.points + s.tiePoints]
           cleared == [scored EXCEPT !.tiePoints = 0]
           led == [cleared EXCEPT !.leadPlayer = nextLead(@, res.winner)]
       IN IF Len(led.deck) > 0 THEN drawAfterTrick(led, res.winner) ELSE led
  ELSE s

\* collectTrick without the draw
collectTrickNoDraw(s, res) ==
  IF res.tie
  THEN [s EXCEPT !.tiePoints = @ + res.points]
  ELSE IF res.winner # null
  THEN LET team == teamOfPlayer(res.winner)
           scored == [s EXCEPT !.scores[team] = @ + res.points + s.tiePoints]
           cleared == [scored EXCEPT !.tiePoints = 0]
       IN [cleared EXCEPT !.leadPlayer = nextLead(@, res.winner)]
  ELSE s

\* the collection with the trump suit revealed anew from the top of the pile after
\* every trick that has a winner
collectTrickRetrumps(s, res) ==
  IF res.tie
  THEN [s EXCEPT !.tiePoints = @ + res.points]
  ELSE IF res.winner # null
  THEN LET team == teamOfPlayer(res.winner)
           scored == [s EXCEPT !.scores[team] = @ + res.points + s.tiePoints]
           cleared == [scored EXCEPT !.tiePoints = 0]
           led == [cleared EXCEPT !.leadPlayer = nextLead(@, res.winner)]
           drawn == IF Len(led.deck) > 0 THEN drawAfterTrick(led, res.winner) ELSE led
       IN [drawn EXCEPT !.trump = IF drawn.deck # <<>> THEN drawn.deck[1].suit ELSE @]
  ELSE s

collectTrick(s, res) ==
  IF res.tie
  THEN [s EXCEPT !.tiePoints = @ + res.points]
  ELSE IF res.winner # null
  THEN LET team == teamOfPlayer(res.winner)
           scored == [s EXCEPT !.scores[team] = @ + res.points + s.tiePoints]
           cleared == [scored EXCEPT !.tiePoints = 0]
           led == [cleared EXCEPT !.leadPlayer = nextLead(@, res.winner)]
       IN IF Len(led.deck) > 0 THEN drawAfterTrick(led, res.winner) ELSE led
  ELSE s

\* One resolved trick as the history keeps it: who led, what was played, what
\* resolveTrick returned, and the scores, tie-points and lead before and after.
trickRecord(via, before, plays, res, after) ==
  [via |-> via, plays |-> plays, winner |-> res.winner, tie |-> res.tie,
   lead |-> before.leadPlayer, scores |-> before.scores, tiePoints |-> before.tiePoints,
   newLead |-> after.leadPlayer, newScores |-> after.scores,
   newTiePoints |-> after.tiePoints]

\* the for loop of playHand with each player playing the last card of the hand
RECURSIVE playHandPlaysLastCard(_, _, _)
playHandPlaysLastCard(s, plays, i) ==
  IF i >= 6 THEN [state |-> s, plays |-> plays]
  ELSE LET player == (s.leadPlayer + i) % 6
           hand == s.hands[player]
       IN IF Len(hand) = 0 THEN playHandPlaysLastCard(s, plays, i + 1)
          ELSE LET card == hand[Len(hand)]
               IN playHandPlaysLastCard(
                    [s EXCEPT !.hands[player] = SubSeq(hand, 1, Len(hand) - 1),
                              !.log = Append(@, logEntry(player, card))],
                    Append(plays, [player |-> player, card |-> card]), i + 1)

\* the for loop of playHand: each player with a card plays the first card of the hand
RECURSIVE playHandPlays(_, _, _)
playHandPlays(s, plays, i) ==
  IF i >= 6 THEN [state |-> s, plays |-> plays]
  ELSE LET player == (s.leadPlayer + i) % 6
           hand == s.hands[player]
       IN IF Len(hand) = 0 THEN playHandPlays(s, plays, i + 1)
          ELSE LET card == Head(hand)
               IN playHandPlays([s EXCEPT !.hands[player] = Tail(@),
                                           !.log = Append(@, logEntry(player, card))],
                                Append(plays, [player |-> player, card |-> card]), i + 1)

\* the while loop of playHand; done holds the tricks it has resolved, error is TRUE
\* where resolveTrick throws out of the loop
RECURSIVE playHandLoop(_, _)
playHandLoop(s, done) ==
  IF cardsIn(s.hands, 0) > 0
  THEN LET round == playHandPlays(s, <<>>, 0)
           res == resolveTrick(round.plays, round.state.trump)
       IN IF res.error THEN [state |-> round.state, tricks |-> done, error |-> TRUE]
          ELSE LET after == collectTrick(round.state, res)
               IN playHandLoop(after,
                    Append(done, trickRecord("playHand", s, round.plays, res, after)))
  ELSE [state |-> s, tricks |-> done, error |-> FALSE]

playHand(s) == playHandLoop(s, <<>>)

\* legalMoves with the rule book's follow-suit rule: cards of the led suit when the
\* player holds one
legalMovesFollowSuit(s, player) ==
  LET trick == trickOf(s)
      hand == s.hands[player]
      follows == IF trick = <<>> THEN <<>>
                 ELSE SelectSeq(hand, LAMBDA c : c.suit = trick[1].card.suit)
  IN IF player # (s.leadPlayer + Len(trick)) % 6 THEN <<>>
     ELSE IF follows # <<>> THEN follows ELSE hand

legalMoves(s, player) ==
  LET trick == trickOf(s)
      turnPlayer == (s.leadPlayer + Len(trick)) % 6
  IN IF player # turnPlayer THEN <<>> ELSE s.hands[player]

\* the sixth play resolved with the six plays left in the state
playCardResolveKeepsTrick(s) == collectTrick(s, resolveTrick(trickOf(s), s.trump))

\* the sixth play: the trick is taken out of the state, resolved and collected
playCardResolve(s) ==
  LET plays == trickOf(s)
      emptied == [s EXCEPT !.currentTrick = {<<>>}]
  IN collectTrick(emptied, resolveTrick(plays, emptied.trump))

\* placeCard without the splice: the card is played and stays in the hand
placeCardKeepsCard(s, player, card, idx) ==
  LET pushed == [s EXCEPT !.currentTrick =
                   {Append(trickOf(s), [player |-> player, card |-> card])}]
      logged == [pushed EXCEPT !.log = Append(@, logEntry(player, card))]
  IN IF Len(trickOf(logged)) = 6 THEN playCardResolve(logged) ELSE logged

\* placeCard without the log entry
placeCardNoLog(s, player, card, idx) ==
  LET removed == [s EXCEPT !.hands[player] = splice(s.hands[player], idx)]
      pushed == [removed EXCEPT !.currentTrick =
                   {Append(trickOf(removed), [player |-> player, card |-> card])}]
  IN IF Len(trickOf(pushed)) = 6 THEN playCardResolve(pushed) ELSE pushed

\* lines 587-614 of playCard, past its two checks: the card leaves the hand, joins the
\* trick and the log, and the sixth play resolves the trick
placeCard(s, player, card, idx) ==
  LET removed == [s EXCEPT !.hands[player] = splice(s.hands[player], idx)]
      pushed == [removed EXCEPT !.currentTrick =
                   {Append(trickOf(removed), [player |-> player, card |-> card])}]
      logged == [pushed EXCEPT !.log = Append(@, logEntry(player, card))]
      trickComplete == Len(trickOf(logged)) = 6
  IN IF trickComplete THEN playCardResolve(logged) ELSE logged

\* playCard with the card looked up before the turn is checked
playCardCardFirst(s, player, card) ==
  LET idx == indexOf(s.hands[player], card)
  IN IF idx = -1 THEN [state |-> s, error |-> "MissingCardError"]
     ELSE IF player # (s.leadPlayer + Len(trickOf(s))) % 6
     THEN [state |-> s, error |-> "TurnError"]
     ELSE [state |-> placeCard(s, player, card, idx), error |-> ""]

\* playCard without the test of idx: the play is recorded, and splice(-1, 1) takes the
\* last card of the hand in its place
playCardUnchecked(s, player, card) ==
  LET idx == indexOf(s.hands[player], card)
  IN IF player # (s.leadPlayer + Len(trickOf(s))) % 6
     THEN [state |-> s, error |-> "TurnError"]
     ELSE [state |-> placeCard(s, player, card, IF idx = -1 THEN Len(s.hands[player]) ELSE idx),
           error |-> ""]

\* playCard without the turn check: whoever holds the card may play it
playCardAnyTurn(s, player, card) ==
  LET idx == indexOf(s.hands[player], card)
  IN IF idx = -1 THEN [state |-> s, error |-> "MissingCardError"]
     ELSE [state |-> placeCard(s, player, card, idx), error |-> ""]

\* error: "" when the call returns, "TurnError" for the throw of line 579,
\* "MissingCardError" for the throw of line 585
playCard(s, player, card) ==
  LET trick == trickOf(s)
      turnPlayer == (s.leadPlayer + Len(trick)) % 6
  IN IF player # turnPlayer THEN [state |-> s, error |-> "TurnError"]
     ELSE
       LET hand == s.hands[player]
           idx == indexOf(hand, card)
       IN IF idx = -1 THEN [state |-> s, error |-> "MissingCardError"]
          ELSE [state |-> placeCard(s, player, card, idx), error |-> ""]

(***************************************************************************)
(* The calls a client makes on one match.  A rejected playCard call and a  *)
(* legalMoves call leave every variable as it was.                         *)
(***************************************************************************)
\* a successful call that plays another card than the first of the hand
deviates(player, card) ==
  /\ playCard(state, player, card).error = ""
  /\ card # Head(state.hands[player])

\* the trick a successful call resolves, as the history keeps it
resolvedBy(player, card, after) ==
  LET plays == Append(trickOf(state), [player |-> player, card |-> card])
  IN IF playCard(state, player, card).error = "" /\ Len(plays) = 6
     THEN <<trickRecord("playCard", state, plays, resolveTrick(plays, state.trump), after)>>
     ELSE <<>>

PlayCard(player, card) ==
  LET r == playCard(state, player, card)
  IN /\ deviates(player, card) => deviations < MaxDeviations
     /\ state' = r.state
     /\ tricks' = tricks \o resolvedBy(player, card, r.state)
     /\ deviations' = IF deviates(player, card) THEN deviations + 1 ELSE deviations
     /\ UNCHANGED call

LegalMoves(player) ==
  /\ legalMoves(state, player) \in Seq(Card)
  /\ UNCHANGED vars

PlayHand ==
  LET r == playHand(state)
  IN /\ state' = r.state
     /\ tricks' = tricks \o r.tricks
     /\ UNCHANGED <<deviations, call>>

\* The cards a client offers for a player: the cards of the player's hand and, for
\* a client out of step with the state, the trump-reveal card and the card played last.
offered(player) ==
  {state.hands[player][k] : k \in 1..Len(state.hands[player])}
    \cup {state.trumpCard}
    \cup {state.log[k].card : k \in {Len(state.log)} \ {0}}

PlayCardCall == \E player \in Players : \E card \in offered(player) : PlayCard(player, card)

LegalMovesCall == \E player \in Players : LegalMoves(player)

noCall == [op |-> "none"]

Init ==
  /\ \E i \in 0..(NumSeeds - 1) : state = initMatch(demoSeed(i))
  /\ tricks = <<>>
  /\ deviations = 0
  /\ call = noCall

Next == PlayCardCall \/ LegalMovesCall \/ PlayHand

Spec == Init /\ [][Next]_vars

(***************************************************************************)
(* Direct calls of the pure functions, on arguments drawn from their       *)
(* domains; the match is left alone.                                       *)
(***************************************************************************)
CallNextLead ==
  \E currentLead \in Players, winner \in Players \cup {null} :
    /\ call' = [op |-> "nextLead", currentLead |-> currentLead, winner |-> winner,
                ret |-> nextLead(currentLead, winner)]
    /\ UNCHANGED <<state, tricks, deviations>>

CallTeamOfPlayer ==
  \E player \in Players :
    /\ call' = [op |-> "teamOfPlayer", player |-> player, ret |-> teamOfPlayer(player)]
    /\ UNCHANGED <<state, tricks, deviations>>

CallCardWeight ==
  \E card \in Card, trump \in Range(SUITS), led \in Range(SUITS) \cup {""} :
    /\ call' = [op |-> "cardWeight", card |-> card, trump |-> trump, led |-> led,
                ret |-> cardWeight(card, trump, led)]
    /\ UNCHANGED <<state, tricks, deviations>>

InitFn ==
  /\ state = initMatch(demoSeed(0))
  /\ tricks = <<>>
  /\ deviations = 0
  /\ call = noCall

NextFn == CallNextLead \/ CallTeamOfPlayer \/ CallCardWeight

SpecFn == InitFn /\ [][NextFn]_vars

(***************************************************************************)
(* Matches dealt from a deck that holds one card twice.  MatchState is a   *)
(* plain exported structure and the resolver's tests and the design        *)
(* document's tie example play the same card twice; only such a deck lets  *)
(* a trick end in a tie.  The players follow playHand's strategy, the      *)
(* first card of the hand.                                                 *)
(***************************************************************************)
\* the match of a seed with the k-th card of player q replaced by a copy of the
\* k-th card of player p
withCopy(s, p, q, k) == [s EXCEPT !.hands[q][k] = s.hands[p][k]]

MatchStarts == {initMatch(demoSeed(i)) : i \in 0..(NumSeeds - 1)}

InitDup ==
  /\ \/ state \in MatchStarts
     \/ \E s \in MatchStarts, p \in Players, q \in Players, k \in 1..3 :
          p # q /\ state = withCopy(s, p, q, k)
  /\ tricks = <<>>
  /\ deviations = 0
  /\ call = noCall

PlayFirstCardCall ==
  \E player \in Players :
    /\ state.hands[player] # <<>>
    /\ PlayCard(player, Head(state.hands[player]))

NextDup == PlayFirstCardCall \/ PlayHand

SpecDup == InitDup /\ [][NextDup]_vars

(***************************************************************************)
(* resolveTrick called on its own.  The tricks are every list of up to     *)
(* MaxPlays cards of the 36, played from seat 0 on, under each trump, and  *)
(* the four six-card tricks of the resolver's tests.                       *)
(***************************************************************************)
\* the tests' helper c(rank, suit)
cardOf(rank, suit) == [suit |-> suit, rank |-> rank]

\* the plays of a list of cards, the k-th by seat k - 1
seatPlays(cards) == [k \in 1..Len(cards) |-> [player |-> k - 1, card |-> cards[k]]]

testTricks ==
  { [plays |-> seatPlays(<<cardOf("6", "hearts"), cardOf("5", "hearts"), cardOf("A", "hearts"),
                           cardOf("3", "hearts"), cardOf("K", "hearts"), cardOf("7", "hearts")>>),
     trump |-> "spades"],
    [plays |-> seatPlays(<<cardOf("6", "clubs"), cardOf("5", "clubs"), cardOf("A", "clubs"),
                           cardOf("4", "spades"), cardOf("K", "clubs"), cardOf("7", "clubs")>>),
     trump |-> "spades"],
    [plays |-> seatPlays(<<cardOf("A", "hearts"), cardOf("A", "hearts"), cardOf("K", "hearts"),
                           cardOf("J", "hearts"), cardOf("7", "hearts"), cardOf("6", "hearts")>>),
     trump |-> "clubs"],
    [plays |-> seatPlays(<<cardOf("J", "diamonds"), cardOf("K", "diamonds"), cardOf("7", "diamonds"),
                           cardOf("5", "diamonds"), cardOf("Q", "diamonds"), cardOf("6", "diamonds")>>),
     trump |-> "hearts"] }

InitTrick ==
  /\ state = initMatch(demoSeed(0))
  /\ tricks = <<>>
  /\ deviations = 0
  /\ \/ \E n \in 0..MaxPlays, trump \in Range(SUITS) : \E cards \in [1..n -> Card] :
          call = [op |-> "plays", plays |-> seatPlays(cards), trump |-> trump]
     \/ \E input \in testTricks :
          call = [op |-> "plays", plays |-> input.plays, trump |-> input.trump]

ResolveTrick ==
  /\ call.op = "plays"
  /\ call' = [op |-> "resolveTrick", plays |-> call.plays, trump |-> call.trump,
              ret |-> resolveTrick(call.plays, call.trump)]
  /\ UNCHANGED <<state, tricks, deviations>>

NextTrick == ResolveTrick

SpecTrick == InitTrick /\ [][NextTrick]_vars

(***************************************************************************)
(* The PunishmentQueue on its own: submit() called over and over on the    *)
(* queue a new match holds.  The history keeps, call by call, the label    *)
(* appended and the queue and cursor the call left.                        *)
(***************************************************************************)
\* PunishmentQueue.sequence
sequence == <<"10", "10", "9", "9", "8", "8", "2", "2">>

\* submit() setting the cursor back to 0 when it resets the queue
submitResetsIndex(q) ==
  LET card == sequence[q.index + 1]
  IN IF card = "2" THEN [queue |-> <<>>, index |-> 0]
     ELSE [queue |-> Append(q.queue, card), index |-> (q.index + 1) % Len(sequence)]

\* submit() resetting the queue on the second "2" alone
submitResetOnSecondTwo(q) ==
  LET card == sequence[q.index + 1]
  IN [queue |-> IF card = "2" /\ q.index = Len(sequence) - 1 THEN <<>>
                ELSE Append(q.queue, card),
      index |-> (q.index + 1) % Len(sequence)]

\* submit() clearing the queue before it appends the "2"
submitClearsBeforePush(q) ==
  LET card == sequence[q.index + 1]
  IN [queue |-> IF card = "2" THEN <<card>> ELSE Append(q.queue, card),
      index |-> (q.index + 1) % Len(sequence)]

submit(q) ==
  LET card == sequence[q.index + 1]
      pushed == Append(q.queue, card)
  IN [queue |-> IF card = "2" THEN <<>> ELSE pushed,
      index |-> (q.index + 1) % Len(sequence)]

Submit ==
  LET q == submit(state.punishment)
  IN /\ Len(call.after) < MaxSubmits
     /\ state' = [state EXCEPT !.punishment = q]
     /\ call' = [op |-> "submit",
                 after |-> Append(call.after, [card |-> sequence[state.punishment.index + 1],
                                               queue |-> q.queue, index |-> q.index])]
     /\ UNCHANGED <<tricks, deviations>>

InitPunish ==
  /\ state = initMatch(demoSeed(0))
  /\ tricks = <<>>
  /\ deviations = 0
  /\ call = [op |-> "submit", after |-> <<>>]

NextPunish == Submit

SpecPunish == InitPunish /\ [][NextPunish]_vars

(***************************************************************************)
(* The two-trick demo: initDemoMatch and playDemoTrick over a DemoState,   *)
(* a MatchState without trumpCard and currentTrick, and without draws.     *)
(***************************************************************************)
\* initDemoMatch: the deal of initMatch; the trump-reveal card stays on top of the pile
initDemoMatch(seed) ==
  LET rng == createRng(stringToSeed(seed))
      dealt == deal([p \in Players |-> <<>>], createShuffledDeck(rng), 0)
      trumpCard == dealt.deck[1]
  IN [seed |-> seed,
      deck |-> dealt.deck,
      trump |-> trumpCard.suit,
      leadPlayer |-> 0,
      hands |-> dealt.hands,
      scores |-> (0 :> 0 @@ 1 :> 0),
      tiePoints |-> 0,
      punishment |-> [queue |-> <<>>, index |-> 0],
      log |-> <<>>]

\* plays.forEach: each card leaves its hand and is logged; a card that is not in the
\* hand ends the call with an error, the plays before it staying made
RECURSIVE playDemoPlace(_, _, _)
playDemoPlace(s, plays, k) ==
  IF k > Len(plays) \/ s.hands = <<>> THEN [state |-> s, error |-> FALSE]   \* hands: six, always
  ELSE LET player == plays[k].player
           idx == indexOf(s.hands[player], plays[k].card)
       IN IF idx = -1 THEN [state |-> s, error |-> TRUE]
          ELSE playDemoPlace([s EXCEPT !.hands[player] = splice(@, idx),
                                       !.log = Append(@, logEntry(player, plays[k].card))],
                             plays, k + 1)

\* the resolution with the punishment guard reading tiePoints as it was before the
\* trick was scored
playDemoResolveChecksBefore(s, res) ==
  IF res.tie
  THEN [s EXCEPT !.tiePoints = @ + res.points]
  ELSE IF res.winner # null
  THEN LET team == teamOfPlayer(res.winner)
           scored == [s EXCEPT !.scores[team] = @ + res.points + s.tiePoints]
           cleared == [scored EXCEPT !.tiePoints = 0]
           led == [cleared EXCEPT !.leadPlayer = nextLead(@, res.winner)]
       IN IF res.points > 0 /\ s.tiePoints > 0
          THEN [led EXCEPT !.punishment = submit(@)]
          ELSE led
  ELSE s

\* the resolution of playDemoTrick: tie-points, score, lead, and the punishment guard,
\* which reads state.tiePoints after the assignment state.tiePoints = 0
playDemoResolve(s, res) ==
  IF res.tie
  THEN [s EXCEPT !.tiePoints = @ + res.points]
  ELSE IF res.winner # null
  THEN LET team == teamOfPlayer(res.winner)
           scored == [s EXCEPT !.scores[team] = @ + res.points + s.tiePoints]
           cleared == [scored EXCEPT !.tiePoints = 0]
           led == [cleared EXCEPT !.leadPlayer = nextLead(@, res.winner)]
       IN IF res.points > 0 /\ led.tiePoints > 0
          THEN [led EXCEPT !.punishment = submit(@)]
          ELSE led
  ELSE s

playDemoTrick(s, plays) ==
  LET placed == playDemoPlace(s, plays, 1)
      res == resolveTrick(plays, s.trump)
  IN IF placed.error \/ res.error
     THEN [state |-> placed.state, error |-> TRUE]
     ELSE [state |-> playDemoResolve(placed.state, res), error |-> FALSE]

(***************************************************************************)
(* Every entry point that holds a punishment queue: matches played by      *)
(* playCard and playHand, and demo matches played by playDemoTrick, dealt  *)
(* from the seeded decks and from the decks that hold one card twice.      *)
(***************************************************************************)
isDemo(s) == "trumpCard" \notin DOMAIN s

\* the sizes of the tricks played on a demo match: no play, and one play of every
\* player that holds a card
DemoTrickSizes == {0, 6}

capped(n, limit) == IF n > limit THEN limit ELSE n

DemoStarts == {initDemoMatch(demoSeed(i)) : i \in 0..(NumSeeds - 1)}

\* the plays the demo driver builds: the players that hold a card, in seat order, each
\* with the first card of the hand; here the first n of them
driverPlays(s, n) ==
  LET holders == SelectSeq([k \in 1..6 |-> k - 1], LAMBDA p : s.hands[p] # <<>>)
  IN [k \in 1..capped(n, Len(holders)) |->
        [player |-> holders[k], card |-> s.hands[holders[k]][1]]]

PlayDemoTrick(plays) ==
  LET r == playDemoTrick(state, plays)
  IN /\ isDemo(state)
     /\ state' = r.state
     /\ tricks' = IF r.error THEN tricks
                  ELSE Append(tricks, trickRecord("playDemoTrick", state, plays,
                                                  resolveTrick(plays, state.trump), r.state))
     /\ UNCHANGED <<deviations, call>>

\* The tricks a client plays: the driver's, the empty one, and one in
\* which the second play is of the card on top of the pile, which no player holds.
PlayDemoTrickCall ==
  /\ isDemo(state)
  /\ \/ \E n \in DemoTrickSizes : PlayDemoTrick(driverPlays(state, n))
     \/ /\ state.deck # <<>>
        /\ PlayDemoTrick(driverPlays(state, 1) \o <<[player |-> 1, card |-> state.deck[1]]>>)

InitCalls ==
  /\ \/ state \in MatchStarts \cup DemoStarts
     \/ \E s \in MatchStarts \cup DemoStarts, p \in Players, q \in Players, k \in 1..3 :
          p # q /\ state = withCopy(s, p, q, k)
  /\ tricks = <<>>
  /\ deviations = 0
  /\ call = noCall

NextCalls ==
  \/ ~isDemo(state) /\ PlayFirstCardCall
  \/ ~isDemo(state) /\ PlayHand
  \/ PlayDemoTrickCall

SpecCalls == InitCalls /\ [][NextCalls]_vars

(***************************************************************************)
(* createShuffledDeck called on its own, on the generator createRng makes  *)
(* of a numeric seed: seeds spread over the 32-bit range, the largest      *)
(* seed, and the hashed seeds of the simulated matches.                    *)
(***************************************************************************)
rngSeeds ==
  {<<(k * 512) % 65536, k>> : k \in 0..(MaxRngSeeds - 1)}
    \cup {<<65535, 65535>>}
    \cup {stringToSeed(demoSeed(i)) : i \in 0..(NumSeeds - 1)}

InitDeck ==
  /\ state = initMatch(demoSeed(0))
  /\ tricks = <<>>
  /\ deviations = 0
  /\ \E seed \in rngSeeds : call = [op |-> "rng", rng |-> createRng(seed)]

CreateShuffledDeck ==
  /\ call.op = "rng"
  /\ call' = [op |-> "createShuffledDeck", rng |-> call.rng,
              swaps |-> swapIndices(Len(unshuffledDeck) - 1, call.rng),
              ret |-> createShuffledDeck(call.rng)]
  /\ UNCHANGED <<state, tricks, deviations>>

NextDeck == CreateShuffledDeck

SpecDeck == InitDeck /\ [][NextDeck]_vars

(***************************************************************************)
(* Properties.                                                             *)
(***************************************************************************)
total(s) == s.scores[0] + s.scores[1] + s.tiePoints

handsEmpty(s) == \A p \in Players : s.hands[p] = <<>>

\* C1 (as stated): for every seed, playHand applied to the state initMatch(seed)
\* returns a state with scores[0] + scores[1] + tiePoints = 116.
C1_PlayHandTotals116 ==
  state \in MatchStarts => total(playHand(state).state) = 116

\* C1 (amended): for every seed, playHand applied to the state initMatch(seed) returns,
\* without an error, a state with scores[0] + scores[1] + tiePoints = 120, the point
\* total of the 36-card deck: 4 * (11 + 10 + 4 + 3 + 2).
C1_PlayHandTotals120 ==
  state \in MatchStarts =>
    /\ ~playHand(state).error
    /\ total(playHand(state).state) = 120

\* C1 witness: a hand played by playHand alone from the deal, to the end.
C1_Witness ==
  /\ state.currentTrick = {}
  /\ Len(tricks) = 6
  /\ \A k \in 1..Len(tricks) : tricks[k].via = "playHand"
  /\ handsEmpty(state)
  /\ total(state) = 120

\* C3: playCard called for a player other than (leadPlayer + length of the
\* in-progress trick) mod 6 fails with the turn error, whatever the card, and
\* returns the state as it was, field for field.
C3_OutOfTurnRejected ==
  \A player \in Players, card \in Card :
    player # (state.leadPlayer + Len(trickOf(state))) % 6 =>
      /\ playCard(state, player, card).error = "TurnError"
      /\ playCard(state, player, card).state = state

\* C3 witness: in the middle of a trick, a player who is not next and holds the
\* card offered is rejected.
C3_Witness ==
  /\ Len(trickOf(state)) \in 1..5
  /\ \E player \in Players :
       /\ player # (state.leadPlayer + Len(trickOf(state))) % 6
       /\ state.hands[player] # <<>>
       /\ playCard(state, player, Head(state.hands[player])).error = "TurnError"

\* C4: playCard called for the turn-holder with a card that is not in that
\* player's hand fails with the missing-card error and returns the state as it was:
\* no card removed, no log entry, no play appended.
C4_MissingCardRejected ==
  LET player == (state.leadPlayer + Len(trickOf(state))) % 6
  IN \A card \in Card \ Range(state.hands[player]) :
       /\ playCard(state, player, card).error = "MissingCardError"
       /\ playCard(state, player, card).state = state

\* C4 witness: the turn-holder, holding cards, offers the card the player before
\* has just played.
C4_Witness ==
  LET player == (state.leadPlayer + Len(trickOf(state))) % 6
  IN /\ state.hands[player] # <<>>
     /\ state.log # <<>>
     /\ playCard(state, player, state.log[Len(state.log)].card).error = "MissingCardError"

cardsOf(s) ==
  s.hands[0] \o s.hands[1] \o s.hands[2] \o s.hands[3] \o s.hands[4] \o s.hands[5]
    \o s.deck \o [k \in 1..Len(s.log) |-> s.log[k].card]

\* C6: in every state reached from initMatch by playCard or playHand, each of the
\* 36 cards is in exactly one place: a hand, the draw pile, or the log of the cards
\* played.
C6_CardsConserved ==
  /\ Len(cardsOf(state)) = 36
  /\ Range(cardsOf(state)) = Card

\* C6 witness: cards have been played, cards have been drawn, a trick is under way.
C6_Witness ==
  /\ tricks # <<>>
  /\ Len(state.deck) < 18
  /\ trickOf(state) # <<>>
  /\ Len(cardsOf(state)) = 36

\* C7: a trick with a clear winner adds its points plus the tie-points held before it
\* to the winner's team, leaves the other team's score alone and sets tiePoints to 0;
\* a tied trick adds its points to tiePoints and leaves both scores alone.
C7_PointsAwardedOnce ==
  \A k \in 1..Len(tricks) :
    LET t == tricks[k]
        points == sumPoints(t.plays, 1)
    IN IF t.tie
       THEN /\ t.newTiePoints = t.tiePoints + points
            /\ t.newScores = t.scores
       ELSE /\ t.winner \in Players
            /\ t.newScores[t.winner % 2] = t.scores[t.winner % 2] + points + t.tiePoints
            /\ t.newScores[1 - (t.winner % 2)] = t.scores[1 - (t.winner % 2)]
            /\ t.newTiePoints = 0

\* C7 witness: a tied trick worth points, then a trick with a winner, who collects the
\* carried points; one of the two was resolved by playCard.
C7_Witness ==
  \E k \in 1..(Len(tricks) - 1) :
    /\ tricks[k].tie /\ tricks[k].newTiePoints > 0
    /\ ~tricks[k + 1].tie /\ tricks[k + 1].tiePoints > 0
    /\ tricks[k + 1].via = "playCard"
    /\ tricks[k + 1].newTiePoints = 0

interactive == \A k \in 1..Len(tricks) : tricks[k].via = "playCard"

\* C10: every trick completed through playCard holds six plays, by the players
\* (leadPlayer + offset) mod 6 for offset 0..5 in that order, and while a trick is
\* built by playCard calls its plays are those of (leadPlayer + offset) mod 6 so far:
\* leadPlayer stays the player of the first play.
C10_TurnOrderWithinTrick ==
  /\ \A k \in 1..Len(tricks) :
       tricks[k].via = "playCard" =>
         /\ Len(tricks[k].plays) = 6
         /\ \A offset \in 0..5 :
              tricks[k].plays[offset + 1].player = (tricks[k].lead + offset) % 6
  /\ interactive =>
       /\ Len(trickOf(state)) \in 0..5
       /\ \A offset \in 0..(Len(trickOf(state)) - 1) :
            trickOf(state)[offset + 1].player = (state.leadPlayer + offset) % 6

\* C10 witness: a trick led by another player than 0 was completed through playCard
\* and the next is under way.
C10_Witness ==
  /\ interactive
  /\ \E k \in 1..Len(tricks) : tricks[k].lead # 0 /\ Len(tricks[k].plays) = 6
  /\ Len(trickOf(state)) \in 1..5

(***************************************************************************)
(* Properties of resolveTrick, on the calls of SpecTrick.                  *)
(***************************************************************************)
\* a call of resolveTrick on a non-empty list of plays has returned
resolved == call.op = "resolveTrick" /\ call.plays # <<>>

\* the strength order the rules state, highest first
statedOrder == <<"A", "7", "K", "Q", "J", "6", "5", "4", "3">>

outranks(r1, r2) == indexOf(statedOrder, r1) < indexOf(statedOrder, r2)

\* the weight of the k-th play of the call, the led suit being that of the first play
weightOfPlay(k) == cardWeight(call.plays[k].card, call.trump, call.plays[1].card.suit)

\* the plays of the call that attain the maximum weight
topPlays ==
  {k \in 1..Len(call.plays) : \A j \in 1..Len(call.plays) : weightOfPlay(j) <= weightOfPlay(k)}

\* C11: on a non-empty list of plays resolveTrick returns tie = false and the player
\* of the one play of maximum weight when one play attains it, tie = true and winner =
\* null when two or more do (the first of them is not picked), and winner is null
\* exactly when tie is true.
C11_UniqueMaxWinsElseTie ==
  resolved =>
    /\ ~call.ret.error
    /\ Cardinality(topPlays) = 1 =>
         /\ call.ret.tie = FALSE
         /\ \A k \in topPlays : call.ret.winner = call.plays[k].player
    /\ Cardinality(topPlays) > 1 => call.ret.tie = TRUE /\ call.ret.winner = null
    /\ (call.ret.winner = null) <=> (call.ret.tie = TRUE)

\* C11 witness: the ace of hearts led and played again, no trump in the trick: a tie,
\* and the first of the two aces has not won.
C11_Witness ==
  /\ resolved
  /\ Len(call.plays) = 6
  /\ call.plays[1].card = cardOf("A", "hearts") /\ call.plays[2].card = cardOf("A", "hearts")
  /\ \A k \in 1..6 : call.plays[k].card.suit # call.trump
  /\ call.ret.tie /\ call.ret.winner = null

trumpPlays == {k \in 1..Len(call.plays) : call.plays[k].card.suit = call.trump}

\* the plays of the call of the suit led
ledPlays == {k \in 1..Len(call.plays) : call.plays[k].card.suit = call.plays[1].card.suit}

\* the play of a set that outranks every other play of the set, if there is one
highestOf(ks) ==
  {k \in ks : \A j \in ks \ {k} : outranks(call.plays[k].card.rank, call.plays[j].card.rank)}

statedPoints(rank) ==
  CASE rank = "A" -> 11 [] rank = "7" -> 10 [] rank = "K" -> 4
    [] rank = "J" -> 3 [] rank = "Q" -> 2 [] OTHER -> 0

RECURSIVE statedSum(_, _)
statedSum(plays, k) ==
  IF k > Len(plays) THEN 0 ELSE statedPoints(plays[k].card.rank) + statedSum(plays, k + 1)

reordered(f) == [k \in 1..Len(call.plays) |-> call.plays[f[k]]]

\* C16: resolveTrick returns the same winner, tie flag and points for every
\* reordering of a non-empty list of plays whose first play is of the same suit.
C16_OrderInsensitive ==
  resolved =>
    \A f \in Permutations(1..Len(call.plays)) :
      reordered(f)[1].card.suit = call.plays[1].card.suit =>
        LET r == resolveTrick(reordered(f), call.trump)
        IN /\ r.winner = call.ret.winner
           /\ r.tie = call.ret.tie
           /\ r.points = call.ret.points

\* C16 witness: three plays of three suits, the last of the led suit, won by the
\* second; led by the last instead, the trick still goes to the same player.
C16_Witness ==
  /\ resolved
  /\ Len(call.plays) = 3
  /\ call.plays[3].card.suit = call.plays[1].card.suit
  /\ call.plays[2].card.suit = call.trump
  /\ call.plays[1].card.suit # call.trump
  /\ call.ret.winner = call.plays[2].player
  /\ resolveTrick(<<call.plays[3], call.plays[1], call.plays[2]>>, call.trump).winner
       = call.plays[2].player

\* C17: resolveTrick called with an empty list of plays fails with an error and
\* returns no result.
C17_EmptyPlaysRejected ==
  (call.op = "resolveTrick" /\ call.plays = <<>>) => call.ret.error

\* C17 witness: resolveTrick has been called with no plays and has thrown.
C17_Witness ==
  call.op = "resolveTrick" /\ call.plays = <<>> /\ call.ret.error

(***************************************************************************)
(* Properties of the PunishmentQueue, on the calls of SpecPunish.          *)
(***************************************************************************)
\* the submit() calls made so far
submitted == 1..Len(call.after)

\* C18 (as stated): the visible queue has lengths 1, 2, 3, 4, 5, 6, 7 after the first
\* seven submit() calls on a new queue and is empty after the eighth.
C18_SevenThenEmpty ==
  /\ \A k \in submitted \cap 1..7 : Len(call.after[k].queue) = k
  /\ \A k \in submitted \cap {8} : call.after[k].queue = <<>>

\* C18 (amended): the visible queue has lengths 1, 2, 3, 4, 5, 6 after the first six
\* submit() calls on a new queue, and is empty after the seventh call (the first "2")
\* and after the eighth (the second "2").
C18_SixThenEmptyTwice ==
  /\ \A k \in submitted \cap 1..6 : Len(call.after[k].queue) = k
  /\ \A k \in submitted \cap {7, 8} :
       call.after[k].card = "2" /\ call.after[k].queue = <<>>

\* C18 witness: eight calls made; six labels after the sixth, none after the seventh
\* and the eighth.
C18_Witness ==
  /\ Len(call.after) = 8
  /\ call.after[6].queue = <<"10", "10", "9", "9", "8", "8">>
  /\ call.after[7].queue = <<>>
  /\ call.after[8].queue = <<>>

isPrefix(q, r) == Len(q) <= Len(r) /\ \A k \in 1..Len(q) : q[k] = r[k]

\* C20: a submit() call that appends the label "2" leaves the visible queue empty;
\* after any number of calls the queue holds no "2" and is a prefix of
\* 10, 10, 9, 9, 8, 8.
C20_TwoEmptiesQueue ==
  /\ \A n \in submitted : call.after[n].card = "2" => call.after[n].queue = <<>>
  /\ \A n \in submitted :
       /\ \A k \in 1..Len(call.after[n].queue) : call.after[n].queue[k] # "2"
       /\ isPrefix(call.after[n].queue, <<"10", "10", "9", "9", "8", "8">>)
  /\ isPrefix(state.punishment.queue, <<"10", "10", "9", "9", "8", "8">>)

\* C20 witness: a call has appended "2" to a queue of six labels and left it empty.
C20_Witness ==
  \E n \in submitted :
    /\ n > 1
    /\ Len(call.after[n - 1].queue) = 6
    /\ call.after[n].card = "2"
    /\ call.after[n].queue = <<>>
    /\ state.punishment.queue = call.after[Len(call.after)].queue

(***************************************************************************)
(* Properties of the deal, the draw and the frame of playCard.             *)
(***************************************************************************)
\* the deck initMatch shuffles for a seed
shuffledOf(seed) == createShuffledDeck(createRng(stringToSeed(seed)))

\* the player whose turn it is
turnPlayer(s) == (s.leadPlayer + Len(trickOf(s))) % 6

\* the trick of the state with one more play
withPlay(s, player, card) == Append(trickOf(s), [player |-> player, card |-> card])

\* a hand without a card
without(hand, card) == SelectSeq(hand, LAMBDA x : x # card)

\* C21: initMatch(seed) deals three cards to each of the six hands, hand p holding the
\* cards at positions p, p + 6 and p + 12 of the shuffled deck in that order; the draw
\* pile holds the other 18 cards, leadPlayer = 0, scores = [0, 0], tiePoints = 0, the
\* log is empty and no trick is in progress.
C21_InitialDeal ==
  state \in MatchStarts =>
    LET d == shuffledOf(state.seed)
    IN /\ \A p \in Players : state.hands[p] = <<d[p + 1], d[p + 7], d[p + 13]>>
       /\ Len(state.deck) = 18
       /\ Range(state.deck) = {d[k] : k \in 19..36}
       /\ state.leadPlayer = 0
       /\ state.scores = (0 :> 0 @@ 1 :> 0)
       /\ state.tiePoints = 0
       /\ state.log = <<>>
       /\ state.currentTrick = {}

\* C21 witness: the match of seed demo-1 as dealt; seat 5 holds the 6th, 12th and 18th
\* card of the shuffled deck.
C21_Witness ==
  /\ state \in MatchStarts
  /\ state.seed = demoSeed(1)
  /\ state.hands[5] = <<shuffledOf(state.seed)[6], shuffledOf(state.seed)[12],
                        shuffledOf(state.seed)[18]>>
  /\ state.log = <<>>

\* C22: after initMatch the trump-reveal card is the 19th card of the shuffled deck,
\* trump is its suit and the card is the last of the draw pile; it stays the last of
\* the draw pile, in no hand and not played, for as long as the pile holds a card.
C22_TrumpCardDrawnLast ==
  /\ state.trump = state.trumpCard.suit
  /\ state \in MatchStarts => state.trumpCard = shuffledOf(state.seed)[19]
  /\ state.deck # <<>> =>
       /\ state.deck[Len(state.deck)] = state.trumpCard
       /\ \A p \in Players : state.trumpCard \notin Range(state.hands[p])
       /\ \A k \in 1..Len(state.log) : state.log[k].card # state.trumpCard

\* C22 witness: the pile is exhausted and the trump-reveal card is the card a player
\* drew last.
C22_Witness ==
  /\ state.deck = <<>>
  /\ \E p \in Players :
       /\ Len(state.hands[p]) = 3
       /\ state.hands[p][3] = state.trumpCard

\* the cards the j-th player of the order w, w + 1, ..., w + 5 takes: those the players
\* before leave, up to a hand of three
RECURSIVE needBefore(_, _, _)
needBefore(hands, w, j) ==
  IF j <= 1 THEN 0
  ELSE LET q == (w + j - 2) % 6
       IN needBefore(hands, w, j - 1) + (IF Len(hands[q]) < 3 THEN 3 - Len(hands[q]) ELSE 0)

atMost(n, limit) == IF n > limit THEN limit ELSE n

\* the hands and the pile after a draw that starts at w
expectedDraw(hands, deck, w) ==
  [hands |-> [q \in Players |->
                LET j == ((q - w + 6) % 6) + 1
                IN hands[q] \o SubSeq(deck, atMost(needBefore(hands, w, j), Len(deck)) + 1,
                                      atMost(needBefore(hands, w, j + 1), Len(deck)))],
   deck |-> SubSeq(deck, atMost(needBefore(hands, w, 7), Len(deck)) + 1, Len(deck))]

\* C23: after a trick with a winner w the players draw in the order w, w + 1, ...,
\* w + 5 (mod 6), from the winner and not from the lead player, each taking cards from
\* the front of the pile up to a hand of three or the end of the pile before the next
\* draws; so for the sixth play of a trick through playCard, and for the next trick
\* playHand plays from any state.
C23_DrawFromWinnerClockwise ==
  /\ Len(trickOf(state)) = 5 =>
       \A card \in Range(state.hands[turnPlayer(state)]) :
         LET player == turnPlayer(state)
             res == resolveTrick(withPlay(state, player, card), state.trump)
             after == playCard(state, player, card).state
             want == expectedDraw([state.hands EXCEPT ![player] = without(@, card)],
                                  state.deck, res.winner)
         IN ~res.tie => after.hands = want.hands /\ after.deck = want.deck
  /\ cardsIn(state.hands, 0) > 0 =>
       LET round == playHandPlays(state, <<>>, 0)
           res == resolveTrick(round.plays, state.trump)
           after == collectTrick(round.state, res)
           want == expectedDraw(round.state.hands, round.state.deck, res.winner)
       IN ~res.tie => after.hands = want.hands /\ after.deck = want.deck

\* C23 witness: a trick led by player 0 is about to be completed and won by player 3,
\* who draws the front card of the pile, before players 4, 5, 0, 1 and 2.
C23_Witness ==
  /\ Len(trickOf(state)) = 5
  /\ state.leadPlayer = 0
  /\ Len(state.deck) >= 6
  /\ \E card \in Range(state.hands[5]) :
       LET after == playCard(state, 5, card).state
       IN /\ resolveTrick(withPlay(state, 5, card), state.trump).winner = 3
          /\ after.hands[3] = Append(state.hands[3], state.deck[1])
          /\ after.hands[0] = Append(state.hands[0], state.deck[4])

\* C24: a successful playCard that leaves fewer than six plays takes that card and no
\* other out of the player's hand, appends one entry {player, card} to the log and one
\* play to the trick in progress, and leaves the other five hands, the draw pile, the
\* scores, tiePoints, leadPlayer, trump and the punishment queue as they were.
C24_PlayFrame ==
  Len(trickOf(state)) < 5 =>
    \A card \in Range(state.hands[turnPlayer(state)]) :
      LET player == turnPlayer(state)
          r == playCard(state, player, card)
      IN /\ r.error = ""
         /\ r.state.hands[player] = without(state.hands[player], card)
         /\ Len(r.state.hands[player]) = Len(state.hands[player]) - 1
         /\ r.state.log = Append(state.log, [player |-> player, card |-> card, action |-> "play"])
         /\ trickOf(r.state) = withPlay(state, player, card)
         /\ \A q \in Players \ {player} : r.state.hands[q] = state.hands[q]
         /\ r.state.deck = state.deck
         /\ r.state.scores = state.scores
         /\ r.state.tiePoints = state.tiePoints
         /\ r.state.leadPlayer = state.leadPlayer
         /\ r.state.trump = state.trump
         /\ r.state.trumpCard = state.trumpCard
         /\ r.state.punishment = state.punishment

\* C24 witness: a trick is in progress after a play of another card than the first of
\* the hand, and the next player holds cards to play.
C24_Witness ==
  /\ Len(trickOf(state)) \in 1..4
  /\ deviations = 1
  /\ state.log[Len(state.log)].card = trickOf(state)[Len(trickOf(state))].card
  /\ Len(state.hands[turnPlayer(state)]) = 3

\* C25: the sixth play of a trick resolves it inside the same playCard call: the trick
\* in progress holds 0 to 5 plays in every state, never 6, and is empty when the call
\* that makes the sixth play returns.
C25_SixthPlayResolves ==
  /\ Len(trickOf(state)) \in 0..5
  /\ Len(trickOf(state)) = 5 =>
       \A card \in Range(state.hands[turnPlayer(state)]) :
         LET r == playCard(state, turnPlayer(state), card)
         IN r.error = "" /\ r.state.currentTrick = {<<>>}
  /\ \A k \in 1..Len(tricks) : tricks[k].via = "playCard" => Len(tricks[k].plays) = 6

\* C25 witness: the last play logged was the sixth of a trick resolved through playCard
\* and no play is in progress.
C25_Witness ==
  /\ tricks # <<>>
  /\ tricks[Len(tricks)].via = "playCard"
  /\ state.currentTrick = {<<>>}
  /\ state.log[Len(state.log)].card = tricks[Len(tricks)].plays[6].card

\* C26: the resolution of a tied trick leaves leadPlayer, both scores, the draw pile
\* and the hands as they were (no player draws); tiePoints grows by the points of the
\* trick and the trick in progress is cleared.  For the sixth play through playCard and
\* for the next trick playHand plays from any state.
C26_TieFrame ==
  /\ Len(trickOf(state)) = 5 =>
       \A card \in Range(state.hands[turnPlayer(state)]) :
         LET player == turnPlayer(state)
             res == resolveTrick(withPlay(state, player, card), state.trump)
             after == playCard(state, player, card).state
         IN res.tie =>
              /\ after.leadPlayer = state.leadPlayer
              /\ after.scores = state.scores
              /\ after.deck = state.deck
              /\ \A q \in Players \ {player} : after.hands[q] = state.hands[q]
              /\ Len(after.hands[player]) = Len(state.hands[player]) - 1
              /\ after.tiePoints = state.tiePoints + statedSum(withPlay(state, player, card), 1)
              /\ after.currentTrick = {<<>>}
  /\ cardsIn(state.hands, 0) > 0 =>
       LET round == playHandPlays(state, <<>>, 0)
           res == resolveTrick(round.plays, state.trump)
           after == collectTrick(round.state, res)
       IN res.tie =>
            /\ after.leadPlayer = state.leadPlayer
            /\ after.scores = state.scores
            /\ after.deck = state.deck
            /\ after.hands = round.state.hands
            /\ after.tiePoints = state.tiePoints + statedSum(round.plays, 1)
  /\ \A k \in 1..Len(tricks) :
       tricks[k].tie => /\ tricks[k].newLead = tricks[k].lead
                        /\ tricks[k].newScores = tricks[k].scores

\* C26 witness: the trick just resolved through playCard was a tie: the pile holds
\* cards, yet every hand is left with two cards and the points wait in tiePoints.
C26_Witness ==
  /\ tricks # <<>>
  /\ tricks[Len(tricks)].tie
  /\ tricks[Len(tricks)].via = "playCard"
  /\ state.currentTrick = {<<>>}
  /\ state.deck # <<>>
  /\ \A p \in Players : Len(state.hands[p]) = 2
  /\ state.tiePoints > 0

\* C27: playHand applied to the state initMatch returns comes to an end, and in the
\* state it returns every hand is empty and the draw pile is empty.
C27_PlayHandCompletes ==
  state \in MatchStarts =>
    /\ ~playHand(state).error
    /\ handsEmpty(playHand(state).state)
    /\ playHand(state).state.deck = <<>>

\* C27 witness: playHand has played the six tricks of a match; 36 cards are logged and
\* neither a hand nor the pile holds a card.
C27_Witness ==
  /\ Len(tricks) = 6
  /\ \A k \in 1..Len(tricks) : tricks[k].via = "playHand"
  /\ Len(state.log) = 36
  /\ handsEmpty(state)
  /\ state.deck = <<>>

\* C28: the run from initMatch(seed) in which playCard is called with the turn-holder
\* and the first card of that player's hand until all hands are empty ends with the
\* hands, draw pile, scores, tiePoints, leadPlayer and log of playHand(initMatch(seed)).
C28_PlayHandIsPlayCardRun ==
  (interactive /\ deviations = 0 /\ handsEmpty(state) /\ state.log # <<>>) =>
    LET batch == playHand(initMatch(state.seed)).state
    IN /\ state.hands = batch.hands
       /\ state.deck = batch.deck
       /\ state.scores = batch.scores
       /\ state.tiePoints = batch.tiePoints
       /\ state.leadPlayer = batch.leadPlayer
       /\ state.log = batch.log

\* C28 witness: six tricks resolved through playCard, first cards only, all hands
\* empty, and the log is the log playHand writes for the seed.
C28_Witness ==
  /\ interactive
  /\ deviations = 0
  /\ Len(tricks) = 6
  /\ handsEmpty(state)
  /\ state.log = playHand(initMatch(state.seed)).state.log

\* C29: in every state reached from initMatch by playCard or playHand each of the six
\* hands holds 0 to 3 cards.
C29_HandSizes ==
  \A p \in Players : Len(state.hands[p]) \in 0..3

\* C29 witness: the first trick is resolved and every player has drawn back to a hand
\* of three cards, no more.
C29_Witness ==
  /\ Len(tricks) = 1
  /\ Len(state.deck) = 12
  /\ \A p \in Players : Len(state.hands[p]) = 3

\* C30 (as stated): when a trick led by one player is won by another player of the
\* same team, the winner leads the next trick.
C30_SameTeamWinnerLeadsNext ==
  \A k \in 1..Len(tricks) :
    (/\ ~tricks[k].tie
     /\ tricks[k].winner # tricks[k].lead
     /\ tricks[k].winner % 2 = tricks[k].lead % 2)
    => tricks[k].newLead = tricks[k].winner

(***************************************************************************)
(* Properties of the deck, the punishment queue and whole matches.         *)
(***************************************************************************)
\* C31: createShuffledDeck returns 36 cards, a permutation of the 4 suits x 9 ranks:
\* every swap index j of the loop satisfies 0 <= j <= i and each card occurs exactly
\* once in the deck returned.
C31_ShuffleIsPermutation ==
  call.op = "createShuffledDeck" =>
    /\ Len(call.ret) = 36
    /\ Len(call.swaps) = 35
    /\ \A k \in 1..Len(call.swaps) : call.swaps[k].j >= 0 /\ call.swaps[k].j <= call.swaps[k].i
    /\ \A card \in Card : Cardinality({k \in 1..Len(call.ret) : call.ret[k] = card}) = 1

\* C31 witness: a shuffle whose first swap index is the largest allowed, j = i = 35,
\* and that moved cards: the deck returned is not the deck built.
C31_Witness ==
  /\ call.op = "createShuffledDeck"
  /\ call.swaps[1].i = 35
  /\ call.swaps[1].j = 35
  /\ \E k \in 2..35 : call.swaps[k].j = 0
  /\ call.ret # unshuffledDeck

C33_PlayHandFromAnyStateTotals116 ==
  interactive =>
    /\ handsEmpty(playHand(state).state)
    /\ total(playHand(state).state) = 116

\* C33, with the 120 points the 36 cards are worth in place of 116: playHand does not
\* score the plays of the trick in progress, so the statement fails all the same.
C33_PlayHandFromAnyStateTotals120 ==
  interactive =>
    /\ handsEmpty(playHand(state).state)
    /\ total(playHand(state).state) = 120

\* C33, what playHand returns: all hands empty, and the points of the deck less the
\* points of the plays that were in progress when it was called.
C33_PlayHandDropsTrickInProgress ==
  interactive =>
    /\ ~playHand(state).error
    /\ handsEmpty(playHand(state).state)
    /\ total(playHand(state).state) = 120 - sumPoints(trickOf(state), 1)
    /\ playHand(state).state.currentTrick = state.currentTrick

\* the points of a sequence of cards, by the stated table
RECURSIVE statedCardSum(_, _)
statedCardSum(cards, k) ==
  IF k > Len(cards) THEN 0 ELSE statedPoints(cards[k].rank) + statedCardSum(cards, k + 1)

RECURSIVE statedHandsSum(_, _)
statedHandsSum(hands, p) ==
  IF p > 5 THEN 0 ELSE statedCardSum(hands[p], 1) + statedHandsSum(hands, p + 1)

\* the points awarded, waiting in tiePoints, and still on cards in the hands, the draw
\* pile and the trick in progress
pointsInPlay(s) ==
  total(s) + statedHandsSum(s.hands, 0) + statedCardSum(s.deck, 1) + statedSum(trickOf(s), 1)

\* C34 (as stated): in every state reached from initMatch by successful playCard calls,
\* scores[0] + scores[1] + tiePoints + the points of the cards in the six hands, the
\* draw pile and the trick in progress = 116.
C34_PointsConserved116 ==
  interactive => pointsInPlay(state) = 116

\* C34 (amended): the same sum is 120, the points of the 36 cards, in every such state.
C34_PointsConserved120 ==
  interactive => pointsInPlay(state) = 120

\* C34 witness: a trick is in progress with points on the table, after a trick that
\* scored, while cards remain in the pile.
C34_Witness ==
  /\ interactive
  /\ tricks # <<>>
  /\ total(state) > 0
  /\ Len(trickOf(state)) \in 1..5
  /\ statedSum(trickOf(state), 1) > 0
  /\ state.deck # <<>>

\* C35: in a match started by initMatch no trick resolves as a tie, whatever cards the
\* players choose: tiePoints is 0 in every state, every resolved trick has a winner, and
\* every card the turn-holder can play as the sixth of a trick gives one highest play.
C35_NoTieInMatch ==
  /\ state.tiePoints = 0
  /\ \A k \in 1..Len(tricks) :
       /\ ~tricks[k].tie
       /\ tricks[k].winner \in Players
       /\ tricks[k].newTiePoints = 0
  /\ Len(trickOf(state)) = 5 =>
       \A card \in Range(state.hands[turnPlayer(state)]) :
         LET plays == withPlay(state, turnPlayer(state), card)
             res == resolveTrick(plays, state.trump)
             weights == weightsFor(plays, state.trump, plays[1].card.suit)
         IN /\ ~res.tie
            /\ res.winner \in Players
            /\ Cardinality({k \in 1..6 : weights[k] = maxOf(weights, 1)}) = 1

\* C35 witness: a match played to the end, one play off the first-card line, in which a
\* trick held two cards of one rank; each of the six tricks had a winner.
C35_Witness ==
  /\ Len(tricks) = 6
  /\ deviations = 1
  /\ handsEmpty(state)
  /\ \E k \in 1..6 : \E a, b \in 1..Len(tricks[k].plays) :
       /\ a # b
       /\ tricks[k].plays[a].card.rank = tricks[k].plays[b].card.rank
  /\ \A k \in 1..6 : tricks[k].winner \in Players

\* C36: interactive play does not get stuck: in every state reached from initMatch by
\* successful playCard calls either the six hands and the draw pile are empty, or the
\* turn-holder (leadPlayer + plays in progress) mod 6 holds a card and playCard accepts
\* it; the hand is complete after exactly 36 successful calls.
C36_InteractivePlayProceeds ==
  interactive =>
    /\ \/ handsEmpty(state) /\ state.deck = <<>>
       \/ /\ state.hands[turnPlayer(state)] # <<>>
          /\ \A card \in Range(state.hands[turnPlayer(state)]) :
               playCard(state, turnPlayer(state), card).error = ""
    /\ handsEmpty(state) <=> Len(state.log) = 36
    /\ Len(state.log) <= 36
    /\ Len(state.log) = 6 * Len(tricks) + Len(trickOf(state))

\* C36 witness: 35 cards played through playCard; the turn-holder holds the last card
\* and playing it completes the hand.
C36_Witness ==
  /\ interactive
  /\ Len(state.log) = 35
  /\ Len(state.hands[turnPlayer(state)]) = 1
  /\ handsEmpty(playCard(state, turnPlayer(state), state.hands[turnPlayer(state)][1]).state)

\* C37: in every state playCard(state, player, card) succeeds exactly when card is a
\* member of legalMoves(state, player), for each player and each of the 36 cards; it
\* fails for every player for whom legalMoves returns the empty sequence.
C37_PlayCardAcceptsLegalMoves ==
  \A player \in Players :
    LET moves == legalMoves(state, player)
    IN \A card \in Card :
         (playCard(state, player, card).error = "") <=> (card \in Range(moves))

\* C37 witness: in the middle of a trick the turn-holder has three legal moves, each
\* accepted and not all of the led suit, and another player holds cards, none legal and
\* each rejected.
C37_Witness ==
  LET trick == trickOf(state)
      player == turnPlayer(state)
  IN /\ trick # <<>>
     /\ Len(legalMoves(state, player)) = 3
     /\ \E card \in Range(legalMoves(state, player)) :
          /\ card.suit # trick[1].card.suit
          /\ playCard(state, player, card).error = ""
     /\ \E other \in Players \ {player} :
          /\ state.hands[other] # <<>>
          /\ legalMoves(state, other) = <<>>
          /\ \A card \in Range(state.hands[other]) : playCard(state, other, card).error # ""

\* the state is at a trick boundary of a run that left no trick in progress behind:
\* tricks completed by playCard, then possibly played on by playHand
atBoundary == state.currentTrick \in {{}, {<<>>}}

wonTricks == {k \in 1..Len(tricks) : ~tricks[k].tie}

\* C39: in every state reached from initMatch leadPlayer is in 0..5, and the team of
\* leadPlayer (leadPlayer mod 2) is the team of the winner of the most recent trick that
\* had a winner, or team A, the team of player 0, when no trick has been won yet.
C39_LeadTeamIsLastWinnersTeam ==
  /\ state.leadPlayer \in 0..5
  /\ IF wonTricks = {}
     THEN state.leadPlayer % 2 = 0
     ELSE LET last == CHOOSE k \in wonTricks : \A j \in wonTricks : j <= k
          IN state.leadPlayer % 2 = tricks[last].winner % 2

\* C39 witness: a player of team B won a trick and took the lead from team A, and the
\* trick after it was tied: team B still leads.
C39_Witness ==
  /\ Len(tricks) >= 2
  /\ tricks[Len(tricks)].tie
  /\ ~tricks[Len(tricks) - 1].tie
  /\ tricks[Len(tricks) - 1].lead % 2 = 0
  /\ tricks[Len(tricks) - 1].winner % 2 = 1
  /\ state.leadPlayer = tricks[Len(tricks) - 1].winner

\* C40: the fields seed, trump and trumpCard are as initMatch set them in every state
\* that playCard and playHand calls lead to, and no card the turn-holder can play
\* changes them; the trump suit that resolved each trick of the hand is the suit of the
\* trump-reveal card.
C40_TrumpIsFixed ==
  /\ \E s \in MatchStarts :
       /\ s.seed = state.seed
       /\ s.trump = state.trump
       /\ s.trumpCard = state.trumpCard
  /\ state.trump = state.trumpCard.suit
  /\ \A card \in Range(state.hands[turnPlayer(state)]) :
       LET after == playCard(state, turnPlayer(state), card).state
       IN <<after.seed, after.trump, after.trumpCard>> = <<state.seed, state.trump, state.trumpCard>>
  /\ \A k \in 1..Len(tricks) :
       tricks[k].winner = resolveTrick(tricks[k].plays, state.trumpCard.suit).winner

\* C40 witness: the hand is over; the last trick was won with a card of the trump suit,
\* the suit of the trump-reveal card, against a led card of another suit.
C40_Witness ==
  /\ Len(tricks) = 6
  /\ handsEmpty(state)
  /\ LET t == tricks[6]
     IN /\ t.plays[1].card.suit # state.trumpCard.suit
        /\ \E k \in 2..Len(t.plays) :
             /\ t.plays[k].player = t.winner
             /\ t.plays[k].card.suit = state.trumpCard.suit

====
